---- MODULE Spec2Model ----
(***************************************************************************)
(* Model of pygeopressure/basic/survey.py: the Survey object that ties     *)
(* wells to a seismic grid (add_well, _add_seis_wells), reads seismic      *)
(* traces around a well (get_seis, _get_traces) and builds sparse maps of  *)
(* log values at a depth (sparse_mesh, get_sparse_list).                   *)
(***************************************************************************)
EXTENDS Integers, Sequences, FiniteSets, TLC

VARIABLES
    seisCube,   \* self.seisCube: the grid descriptor (start/end/step per axis)
    wells,      \* self.wells: well_name -> Well
    order,      \* iteration order of self.wells (insertion order of its keys, as in
                \* CPython 3.7 and later)
    inl_crl,    \* self.inl_crl: well_name -> (inline, crline)
    call,       \* the last method called, with its arguments
    ret,        \* the value that call returned (<<>> for None)
    raised,     \* the exception that call raised, "" when it returned
    reads,      \* the seisCube.get_cdp calls made during that call, in order
    printed,    \* the lines that call printed, in order
    locals,     \* local variables of that call at its end (depth, for the mesh methods)
    registered, \* history: well_name -> loc of the well registered last under it
    overwrote   \* history: the last add_well replaced a well by one at another loc

vars == <<seisCube, wells, order, inl_crl, call, ret, raised, reads, printed,
          locals, registered, overwrote>>

(***************************************************************************)
(* Bounds of the model.                                                    *)
(***************************************************************************)
MaxEnd == 5        \* largest axis end
MaxStep == 2       \* largest axis step
MaxCoord == 4      \* largest geographic x coordinate of a well
MaxRadius == 2     \* largest radius passed to get_seis
MaxLogLen == 2     \* longest log array of a well

(***************************************************************************)
(* Python and numpy primitives the methods use.                            *)
(***************************************************************************)
abs(x) == IF x < 0 THEN -x ELSE x

\* range(a, b, s) and np.arange(a, b, s) over integers, s > 0: a, a+s, ... below b
PyRange(a, b, s) ==
    LET n == IF b <= a THEN 0 ELSE (b - a + s - 1) \div s
    IN  [k \in 1..n |-> a + (k - 1) * s]

\* int(x) of a number given in halves (h stands for h/2): truncation toward zero
\* (PyIntFloor rounds down instead, as floor() would)
PyIntFloor(h) == h \div 2
PyInt(h) == IF h >= 0 THEN h \div 2 ELSE -((-h) \div 2)

\* min(iterable, key=...): the position of the first element whose key is minimal;
\* keys is the sequence of the keys in iteration order. The scan of positions
\* lo..hi is split in halves, the left half winning an equal key.
\* (MinScanLast and PyMinLastIndex give the last such position instead.)
RECURSIVE MinScanLast(_, _, _)
MinScanLast(keys, lo, hi) ==
    IF lo >= hi THEN lo
    ELSE LET mid == (lo + hi) \div 2
             l == MinScanLast(keys, lo, mid)
             r == MinScanLast(keys, mid + 1, hi)
         IN  IF keys[r] <= keys[l] THEN r ELSE l
RECURSIVE MinScan(_, _, _)
MinScan(keys, lo, hi) ==
    IF lo >= hi THEN lo
    ELSE LET mid == (lo + hi) \div 2
             l == MinScan(keys, lo, mid)
             r == MinScan(keys, mid + 1, hi)
         IN  IF keys[r] < keys[l] THEN r ELSE l
PyMinLastIndex(keys) == MinScanLast(keys, 1, Len(keys))
PyMinIndex(keys) == MinScan(keys, 1, Len(keys))

\* itertools.product(a, b) as a list: a outer, b inner
\* (productInnerFirst is product(b, a) with the pairs turned round: b outer)
productInnerFirst(a, b) ==
    [k \in 1..(Len(a) * Len(b)) |->
        <<a[((k - 1) % Len(a)) + 1], b[((k - 1) \div Len(a)) + 1]>>]
product(a, b) ==
    [k \in 1..(Len(a) * Len(b)) |->
        <<a[((k - 1) \div Len(b)) + 1], b[((k - 1) % Len(b)) + 1]>>]

Range(s) == {s[i] : i \in DOMAIN s}

(***************************************************************************)
(* Collaborators of Survey that live in other modules of the package.      *)
(***************************************************************************)
\* SurveySetting.coord_2_line: geographic (x, y) -> (inline, crline)
coord_2_line(loc) == <<loc[1] + 1, loc[2] + 1>>

\* SeisCube.get_cdp(loc, attr): the sample stored at a grid index for an attribute
get_cdp(loc, attr) == [cdp |-> loc, attr |-> attr]

\* SeisCube: the axes of the volume and its extents nNorth x nEast
SeisCube(inl, crl, dep) ==
    [startInline |-> inl.start, endInline |-> inl.end, stepInline |-> inl.step,
     startCrline |-> crl.start, endCrline |-> crl.end, stepCrline |-> crl.step,
     startDepth |-> dep.start, endDepth |-> dep.end, stepDepth |-> dep.step,
     nNorth |-> (crl.end - crl.start) \div crl.step + 1,
     nEast |-> (inl.end - inl.start) \div inl.step + 1]

\* Well: well_name, loc and the logs get_log returns ("depth" and one data log)
Well(name, loc, depth, data) ==
    [well_name |-> name, loc |-> loc, depth |-> depth, data |-> data]

get_log(we, log_name) == IF log_name = "depth" THEN we.depth ELSE we.data

(***************************************************************************)
(* Registration.                                                           *)
(***************************************************************************)
_tie(well) == coord_2_line(well.loc)

\* d[k] = v on a dict
SetItem(d, k, v) == [x \in (DOMAIN d) \cup {k} |-> IF x = k THEN v ELSE d[x]]

\* the keys of a dict in iteration order after d[k] = v
KeysAfterSet(keys, d, k) == IF k \in DOMAIN d THEN keys ELSE Append(keys, k)

\* the first loop of _add_seis_wells over the first n entries of well_json
RECURSIVE LoadWells(_, _)
LoadWells(well_json, n) ==
    IF n = 0 THEN [wells |-> <<>>, order |-> <<>>]
    ELSE LET before == LoadWells(well_json, n - 1)
             temp == well_json[n]
         IN  [wells |-> SetItem(before.wells, temp.well_name, temp),
              order |-> KeysAfterSet(before.order, before.wells, temp.well_name)]

\* the second loop of _add_seis_wells: a tie for every well of self.wells
TieAll(ws) == [n \in DOMAIN ws |-> _tie(ws[n])]

(***************************************************************************)
(* get_seis and _get_traces.                                               *)
(***************************************************************************)
\* _get_traces (lines 112-135); get_traces_unclamped leaves out the clamp of
\* inl_max at lines 125-126
get_traces_unclamped(cube, radius, cdp) ==
    LET inline == cdp[1]
        crline == cdp[2]
        inl_min0 == inline - radius * cube.stepInline
        inl_min == IF inl_min0 < cube.startInline THEN cube.startInline ELSE inl_min0
        inl_max == inline + radius * cube.stepInline
        crl_min0 == crline - radius * cube.stepCrline
        crl_min == IF crl_min0 < cube.startCrline THEN cube.startCrline ELSE crl_min0
        crl_max0 == crline + radius * cube.stepCrline
        crl_max == IF crl_max0 > cube.endCrline THEN cube.endCrline ELSE crl_max0
    IN  <<PyRange(inl_min, inl_max + 1, cube.stepInline),
          PyRange(crl_min, crl_max + 1, cube.stepCrline)>>

_get_traces(cube, radius, cdp) ==
    LET inline == cdp[1]
        crline == cdp[2]
        inl_min0 == inline - radius * cube.stepInline
        inl_min == IF inl_min0 < cube.startInline THEN cube.startInline ELSE inl_min0
        inl_max0 == inline + radius * cube.stepInline
        inl_max == IF inl_max0 > cube.endInline THEN cube.endInline ELSE inl_max0
        crl_min0 == crline - radius * cube.stepCrline
        crl_min == IF crl_min0 < cube.startCrline THEN cube.startCrline ELSE crl_min0
        crl_max0 == crline + radius * cube.stepCrline
        crl_max == IF crl_max0 > cube.endCrline THEN cube.endCrline ELSE crl_max0
    IN  <<PyRange(inl_min, inl_max + 1, cube.stepInline),
          PyRange(crl_min, crl_max + 1, cube.stepCrline)>>

\* what get_seis returns, reads and prints; radius2 is the radius argument in halves
\* (get_seis_default_loc goes on with the first grid point for an unknown name)
get_seis_default_loc(cube, ties, well_name, attr, radius2) ==
    LET radius == PyInt(radius2)
        loc == IF well_name \in DOMAIN ties THEN ties[well_name]
               ELSE <<cube.startInline, cube.startCrline>>
    IN  IF radius = 0
        THEN [ret |-> <<<<loc>>, <<get_cdp(loc, attr)>>>>,
              reads |-> <<<<loc, attr>>>>,
              printed |-> <<>>]
        ELSE LET traces == _get_traces(cube, radius, loc)
                 locs == product(traces[1], traces[2])
             IN  [ret |-> <<locs, [i \in 1..Len(locs) |-> get_cdp(locs[i], attr)]>>,
                  reads |-> [i \in 1..Len(locs) |-> <<locs[i], attr>>],
                  printed |-> <<>>]

get_seis(cube, ties, well_name, attr, radius2) ==
    LET radius == PyInt(radius2)
    IN  IF well_name \in DOMAIN ties
        THEN LET loc == ties[well_name]
             IN  IF radius = 0
                 THEN [ret |-> <<<<loc>>, <<get_cdp(loc, attr)>>>>,
                       reads |-> <<<<loc, attr>>>>,
                       printed |-> <<>>]
                 ELSE LET traces == _get_traces(cube, radius, loc)
                          locs == product(traces[1], traces[2])
                      IN  [ret |-> <<locs,
                                     [i \in 1..Len(locs) |-> get_cdp(locs[i], attr)]>>,
                           reads |-> [i \in 1..Len(locs) |-> <<locs[i], attr>>],
                           printed |-> <<>>]
        ELSE [ret |-> <<>>, reads |-> <<>>, printed |-> <<"Well not found!">>]

(***************************************************************************)
(* sparse_mesh and get_sparse_list.                                        *)
(***************************************************************************)
\* np.nan; log values are written as the strings of floats
NaN == "nan"

\* lines 138-151: the depth sparse_mesh goes on with, and what it prints
\* (mesh_depth_notice_at_end tests depth >= endDepth at line 141)
mesh_depth_notice_at_end(cube, depth) ==
    LET depth_range == PyRange(cube.startDepth, cube.endDepth + 1, cube.stepDepth)
        keys == [i \in 1..Len(depth_range) |-> abs(depth_range[i] - depth)]
    IN  [printed |->
            IF depth >= cube.endDepth
            THEN <<"input depth larger than maximum depth">>
            ELSE IF depth < cube.startDepth
            THEN <<"input depth smaller than minimum depth">>
            ELSE IF depth \notin Range(depth_range)
            THEN <<"return values on nearest depth">>
            ELSE <<>>,
         depth |-> depth_range[PyMinIndex(keys)]]

mesh_depth(cube, depth) ==
    LET depth_range == PyRange(cube.startDepth, cube.endDepth + 1, cube.stepDepth)
        keys == [i \in 1..Len(depth_range) |-> abs(depth_range[i] - depth)]
    IN  [printed |->
            IF depth > cube.endDepth
            THEN <<"input depth larger than maximum depth">>
            ELSE IF depth < cube.startDepth
            THEN <<"input depth smaller than minimum depth">>
            ELSE IF depth \notin Range(depth_range)
            THEN <<"return values on nearest depth">>
            ELSE <<>>,
         depth |-> depth_range[PyMinIndex(keys)]]

\* lines 170-183: the same in get_sparse_list
\* (list_depth_open_range leaves out the + 1 of line 171)
list_depth_open_range(cube, depth) ==
    LET depth_range == PyRange(cube.startDepth, cube.endDepth, cube.stepDepth)
        keys == [i \in 1..Len(depth_range) |-> abs(depth_range[i] - depth)]
    IN  [printed |->
            IF depth > cube.endDepth
            THEN <<"input depth larger than maximum depth">>
            ELSE IF depth < cube.startDepth
            THEN <<"input depth smaller than minimum depth">>
            ELSE IF depth \notin Range(depth_range)
            THEN <<"return values on nearest depth">>
            ELSE <<>>,
         depth |-> depth_range[PyMinIndex(keys)]]

list_depth(cube, depth) ==
    LET depth_range == PyRange(cube.startDepth, cube.endDepth + 1, cube.stepDepth)
        keys == [i \in 1..Len(depth_range) |-> abs(depth_range[i] - depth)]
    IN  [printed |->
            IF depth > cube.endDepth
            THEN <<"input depth larger than maximum depth">>
            ELSE IF depth < cube.startDepth
            THEN <<"input depth smaller than minimum depth">>
            ELSE IF depth \notin Range(depth_range)
            THEN <<"return values on nearest depth">>
            ELSE <<>>,
         depth |-> depth_range[PyMinIndex(keys)]]

\* lines 155-158: the log value sparse_mesh takes for a well (positions from 1);
\* min() of an empty log_index raises ValueError
mesh_log_value(we, log_name, depth) ==
    LET log_depth == get_log(we, "depth")
        log_data == get_log(we, log_name)
        keys == [x \in 1..Len(log_depth) |-> abs(log_depth[x] - depth)]
    IN  log_data[PyMinIndex(keys)]

\* lines 186-189: the same in get_sparse_list
\* (list_log_value_last takes the last nearest sample)
list_log_value_last(we, log_name, depth) ==
    LET log_depth == get_log(we, "depth")
        log_data == get_log(we, log_name)
        keys == [x \in 1..Len(log_depth) |-> abs(log_depth[x] - depth)]
    IN  log_data[PyMinLastIndex(keys)]

list_log_value(we, log_name, depth) ==
    LET log_depth == get_log(we, "depth")
        log_data == get_log(we, log_name)
        keys == [x \in 1..Len(log_depth) |-> abs(log_depth[x] - depth)]
    IN  log_data[PyMinIndex(keys)]

\* lines 160-165: the (row, column) sparse_mesh writes a well's value to
\* (mesh_index_no_step leaves out the division by the steps)
mesh_index_no_step(cube, cdp) ==
    <<cdp[2] - cube.startCrline, cdp[1] - cube.startInline>>

mesh_index(cube, cdp) ==
    LET w_inline == cdp[1]
        w_crline == cdp[2]
        a == (w_crline - cube.startCrline) \div cube.stepCrline
        b == (w_inline - cube.startInline) \div cube.stepInline
    IN  <<a, b>>

\* numpy: an index i of an axis of length n is valid from -n to n - 1,
\* and a negative one counts from the end
InAxis(i, n) == -n <= i /\ i < n
Wrap(i, n) == IF i < 0 THEN i + n ELSE i

\* the loop of sparse_mesh (lines 154-166) over the first n wells of self.wells
RECURSIVE MeshLoop(_, _, _, _, _, _, _)
MeshLoop(cube, ws, ord, ties, depth, log_name, n) ==
    IF n = 0
    THEN [mesh |-> [c \in (0..(cube.nNorth - 1)) \X (0..(cube.nEast - 1)) |-> NaN],
          raised |-> ""]
    ELSE LET before == MeshLoop(cube, ws, ord, ties, depth, log_name, n - 1)
             we == ws[ord[n]]
             ab == mesh_index(cube, ties[we.well_name])
         IN  IF before.raised # "" THEN before
             ELSE IF Len(get_log(we, "depth")) = 0
             THEN [mesh |-> before.mesh, raised |-> "ValueError"]
             ELSE IF ~(InAxis(ab[1], cube.nNorth) /\ InAxis(ab[2], cube.nEast))
             THEN [mesh |-> before.mesh, raised |-> "IndexError"]
             ELSE [mesh |-> [before.mesh EXCEPT
                                ![<<Wrap(ab[1], cube.nNorth), Wrap(ab[2], cube.nEast)>>]
                                    = mesh_log_value(we, log_name, depth)],
                   raised |-> ""]

sparse_mesh(cube, ws, ord, ties, depth0, log_name) ==
    LET snap == mesh_depth(cube, depth0)
        loop == MeshLoop(cube, ws, ord, ties, snap.depth, log_name, Len(ord))
    IN  [ret |-> IF loop.raised = "" THEN loop.mesh ELSE <<>>,
         raised |-> loop.raised,
         printed |-> snap.printed,
         locals |-> [depth |-> snap.depth]]

\* the loop of get_sparse_list (lines 185-197) over the first n wells of self.wells
RECURSIVE ListLoop(_, _, _, _, _, _)
ListLoop(ws, ord, ties, depth, log_name, n) ==
    IF n = 0 THEN [sparse_list |-> <<>>, raised |-> ""]
    ELSE LET before == ListLoop(ws, ord, ties, depth, log_name, n - 1)
             we == ws[ord[n]]
             w_inline == ties[we.well_name][1]
             w_crline == ties[we.well_name][2]
         IN  IF before.raised # "" THEN before
             ELSE IF Len(get_log(we, "depth")) = 0
             THEN [sparse_list |-> before.sparse_list, raised |-> "ValueError"]
             ELSE [sparse_list |->
                      Append(before.sparse_list,
                             <<w_inline, w_crline, list_log_value(we, log_name, depth)>>),
                   raised |-> ""]

get_sparse_list(cube, ws, ord, ties, depth0, log_name) ==
    LET snap == list_depth(cube, depth0)
        loop == ListLoop(ws, ord, ties, snap.depth, log_name, Len(ord))
    IN  [ret |-> IF loop.raised = "" THEN loop.sparse_list ELSE <<>>,
         raised |-> loop.raised,
         printed |-> snap.printed,
         locals |-> [depth |-> snap.depth]]

(***************************************************************************)
(* The inputs the model draws from.                                        *)
(***************************************************************************)
Names == {"W1", "W2"}
QueryNames == Names \cup {"ghost"}
Attrs == {"amp"}
LogNames == {"vp"}

\* an axis is start <= end with a positive integer step
Axes == {[start |-> 2, end |-> e, step |-> p] : e \in (MaxEnd - 1)..MaxEnd, p \in 1..MaxStep}
CrlAxes == {[start |-> 1, end |-> 3, step |-> p] : p \in 1..MaxStep}
OneAxis == [start |-> 2, end |-> 4, step |-> 2]

\* geographic locations, on and off the grid lines, inside and outside the grid
Locs == (0..MaxCoord) \X (0..1)

\* radius arguments in halves: -0.5, 0, 0.5, and the whole radii 1..MaxRadius
Radii == {-1, 0, 1} \cup {2 * r : r \in 1..MaxRadius}

\* the wells whose logs do not matter: one depth sample, one value per well name;
\* W1 lies anywhere, W2 at one of three places
PlainWells ==
    {Well("W1", l, <<3>>, <<"10.0">>) : l \in Locs}
    \cup {Well("W2", l, <<3>>, <<"20.0">>) : l \in {<<0, 0>>, <<1, 0>>, <<3, 1>>}}

\* well_json lists of the constructor: none, one well, or two wells
WellJsons(pool) ==
    {<<>>} \cup {<<w>> : w \in pool} \cup {<<v, w>> : v \in pool, w \in pool}

(***************************************************************************)
(* The methods as actions.                                                 *)
(***************************************************************************)
\* history: the loc of the last entry of well_json under each name
LastLocs(well_json) ==
    [n \in {well_json[i].well_name : i \in DOMAIN well_json} |->
        LET last == CHOOSE i \in DOMAIN well_json :
                        /\ well_json[i].well_name = n
                        /\ \A j \in DOMAIN well_json :
                              well_json[j].well_name = n => j <= i
        IN  well_json[last].loc]

\* __init__ (lines 51-61) with _add_seis_wells (lines 73-80)
_add_seis_wells(cube, well_json) ==
    LET loaded == LoadWells(well_json, Len(well_json))
    IN  /\ seisCube = cube
        /\ wells = loaded.wells
        /\ order = loaded.order
        /\ inl_crl = TieAll(loaded.wells)
        /\ call = [op |-> "__init__"]
        /\ ret = <<>>
        /\ raised = ""
        /\ reads = <<>>
        /\ printed = <<>>
        /\ locals = <<>>
        /\ registered = LastLocs(well_json)
        /\ overwrote = FALSE

\* add_well (lines 85-88); add_well_keep_tie keeps the tie a name already has
add_well_keep_tie(well) ==
    /\ LET loc == _tie(well)
       IN  /\ wells' = SetItem(wells, well.well_name, well)
           /\ order' = KeysAfterSet(order, wells, well.well_name)
           /\ inl_crl' = IF well.well_name \in DOMAIN inl_crl THEN inl_crl
                         ELSE SetItem(inl_crl, well.well_name, loc)
    /\ registered' = SetItem(registered, well.well_name, well.loc)
    /\ overwrote' = (well.well_name \in DOMAIN registered
                     /\ registered[well.well_name] # well.loc)
    /\ call' = [op |-> "add_well", well |-> well]
    /\ ret' = <<>>
    /\ raised' = ""
    /\ reads' = <<>>
    /\ printed' = <<>>
    /\ locals' = <<>>
    /\ UNCHANGED seisCube

add_well(well) ==
    /\ LET loc == _tie(well)
       IN  /\ wells' = SetItem(wells, well.well_name, well)
           /\ order' = KeysAfterSet(order, wells, well.well_name)
           /\ inl_crl' = SetItem(inl_crl, well.well_name, loc)
    /\ registered' = SetItem(registered, well.well_name, well.loc)
    /\ overwrote' = (well.well_name \in DOMAIN registered
                     /\ registered[well.well_name] # well.loc)
    /\ call' = [op |-> "add_well", well |-> well]
    /\ ret' = <<>>
    /\ raised' = ""
    /\ reads' = <<>>
    /\ printed' = <<>>
    /\ locals' = <<>>
    /\ UNCHANGED seisCube

GetSeisCall(well_name, attr, radius2) ==
    /\ LET r == get_seis(seisCube, inl_crl, well_name, attr, radius2)
       IN  /\ ret' = r.ret
           /\ reads' = r.reads
           /\ printed' = r.printed
    /\ call' = [op |-> "get_seis", well_name |-> well_name, attr |-> attr,
                radius |-> radius2]
    /\ raised' = ""
    /\ locals' = <<>>
    /\ UNCHANGED <<seisCube, wells, order, inl_crl, registered, overwrote>>

SparseMeshCall(depth, log_name) ==
    /\ LET r == sparse_mesh(seisCube, wells, order, inl_crl, depth, log_name)
       IN  /\ ret' = r.ret
           /\ raised' = r.raised
           /\ printed' = r.printed
           /\ locals' = r.locals
    /\ call' = [op |-> "sparse_mesh", depth |-> depth, log_name |-> log_name]
    /\ reads' = <<>>
    /\ UNCHANGED <<seisCube, wells, order, inl_crl, registered, overwrote>>

GetSparseListCall(depth, log_name) ==
    /\ LET r == get_sparse_list(seisCube, wells, order, inl_crl, depth, log_name)
       IN  /\ ret' = r.ret
           /\ raised' = r.raised
           /\ printed' = r.printed
           /\ locals' = r.locals
    /\ call' = [op |-> "get_sparse_list", depth |-> depth, log_name |-> log_name]
    /\ reads' = <<>>
    /\ UNCHANGED <<seisCube, wells, order, inl_crl, registered, overwrote>>

(***************************************************************************)
(* Spec: a survey under all four methods.                                  *)
(***************************************************************************)
Cubes == {SeisCube(i, c, OneAxis) : i \in Axes, c \in CrlAxes}

Init == \E cube \in Cubes, well_json \in WellJsons(PlainWells) :
            _add_seis_wells(cube, well_json)

Next ==
    \/ \E well \in PlainWells : add_well(well)
    \/ \E n \in QueryNames, a \in Attrs, r \in {0, 2} : GetSeisCall(n, a, r)
    \/ \E d \in {1, 3} , l \in LogNames : SparseMeshCall(d, l)
    \/ \E d \in {1, 3} , l \in LogNames : GetSparseListCall(d, l)

Spec == Init /\ [][Next]_vars

(***************************************************************************)
(* SpecSeis: registrations and neighbourhood queries of every radius.      *)
(***************************************************************************)
NextSeis ==
    \/ \E well \in PlainWells : add_well(well)
    \/ \E n \in QueryNames, a \in Attrs, r \in Radii : GetSeisCall(n, a, r)

SpecSeis == Init /\ [][NextSeis]_vars

(***************************************************************************)
(* SpecDepth: one well with logs of every shape, every depth axis, and the *)
(* two mesh methods at depths below, inside and above the axis.            *)
(***************************************************************************)
LogDepths == {1, 3}
LogValues == {"10.0", "20.0"}

SeqsOf(S, n) == UNION {[1..k -> S] : k \in 0..n}

LoggedWells ==
    {Well("W1", <<1, 0>>, d, v) :
        d \in SeqsOf(LogDepths, MaxLogLen), v \in SeqsOf(LogValues, MaxLogLen)}

DepthWells == {w \in LoggedWells : Len(w.depth) = Len(w.data)}

DepthCubes == {SeisCube(OneAxis, [start |-> 1, end |-> 3, step |-> 1], d) : d \in Axes}

Depths == 0..(MaxEnd + 2)

InitDepth == \E cube \in DepthCubes, well_json \in {<<>>} \cup {<<w>> : w \in DepthWells} :
                 _add_seis_wells(cube, well_json)

NextDepth ==
    \/ \E well \in DepthWells : add_well(well)
    \/ \E d \in Depths, l \in LogNames : SparseMeshCall(d, l)
    \/ \E d \in Depths, l \in LogNames : GetSparseListCall(d, l)

SpecDepth == InitDepth /\ [][NextDepth]_vars

(***************************************************************************)
(* Properties of get_seis.                                                 *)
(***************************************************************************)
\* a tie within the bounds of both horizontal axes
InGrid(cube, cdp) ==
    /\ cube.startInline <= cdp[1] /\ cdp[1] <= cube.endInline
    /\ cube.startCrline <= cdp[2] /\ cdp[2] <= cube.endCrline

\* the get_seis call of a registered well with a whole radius > 0, tie in the grid
WindowCall ==
    /\ call.op = "get_seis"
    /\ call.well_name \in DOMAIN inl_crl
    /\ call.radius >= 2 /\ call.radius % 2 = 0
    /\ InGrid(seisCube, inl_crl[call.well_name])

\* the values tie + k*step, -radius <= k <= radius, that lie in [start, end]
Candidates(t, radius, start, end, step) ==
    {v \in {t + k * step : k \in (-radius)..radius} : start <= v /\ v <= end}

\* the list holds the pairs of lines x crls once each, lines outer, both ascending
LineMajor(locs, lines, crls) ==
    /\ Range(locs) = lines \X crls
    /\ \A i \in 1..Len(locs), j \in 1..Len(locs) :
          i < j => \/ locs[i][1] < locs[j][1]
                   \/ locs[i][1] = locs[j][1] /\ locs[i][2] < locs[j][2]

\* C1: for a registered well tied inside the grid and a radius > 0, every location
\* get_seis returns lies within [start, end] on both axes, the locations are
\* pairwise distinct, and their number is the number of distinct returned lines
\* times the number of distinct returned crosslines.
C1_WindowInsideGrid ==
    WindowCall =>
        LET locs == ret[1]
        IN  /\ \A i \in 1..Len(locs) : InGrid(seisCube, locs[i])
            /\ \A i \in 1..Len(locs), j \in 1..Len(locs) : i # j => locs[i] # locs[j]
            /\ Len(locs) = Cardinality({locs[i][1] : i \in 1..Len(locs)})
                           * Cardinality({locs[i][2] : i \in 1..Len(locs)})
            /\ Len(ret[2]) = Len(locs)

\* C1 witness: a window that the grid bounds cut short on some side
C1_ClampedWindow ==
    /\ WindowCall
    /\ Len(ret[1]) > 1
    /\ Len(ret[1]) < (call.radius + 1) * (call.radius + 1)

OnLattice(t, radius, start, step) ==
    (t - start) % step = 0 \/ t - radius * step >= start

\* the example of the specification: lines [100, 110, step 2], crosslines
\* [200, 206, step 2], a well tied to (104, 202), radius 1
ExampleSeis ==
    get_seis(SeisCube([start |-> 100, end |-> 110, step |-> 2],
                      [start |-> 200, end |-> 206, step |-> 2], OneAxis),
             [n \in {"W"} |-> <<104, 202>>], "W", "amp", 2)

C6_UnknownWellEmptyResult ==
    [][(call'.op = "get_seis" /\ call'.well_name \notin DOMAIN inl_crl)
        => /\ ret' = <<>>
           /\ raised' = ""
           /\ reads' = <<>>
           /\ wells' = wells
           /\ inl_crl' = inl_crl]_vars

\* C6 witness: a call for an unknown name while other wells are registered
C6_UnknownWellQueried ==
    /\ call.op = "get_seis"
    /\ call.well_name \notin DOMAIN inl_crl
    /\ call.radius > 0
    /\ DOMAIN inl_crl # {}
    /\ printed = <<"Well not found!">>

\* C8: get_seis of a registered well with a radius that int() makes 0 (0 itself,
\* 0.5, -0.5) returns one location, the cached tie of the name, and one sample,
\* the one read from the cube at that tie for the attribute.
C8_RadiusZeroReadsTie ==
    (/\ call.op = "get_seis"
     /\ call.well_name \in DOMAIN inl_crl
     /\ call.radius \in {-1, 0, 1})
    => LET t == inl_crl[call.well_name]
       IN  /\ ret = <<<<t>>, <<get_cdp(t, call.attr)>>>>
           /\ reads = <<<<t, call.attr>>>>
           /\ t = coord_2_line(registered[call.well_name])

\* C8 witness: radius -0.5 for a name that was registered again at another place
C8_RadiusCoercedAfterReRegistration ==
    /\ call.op = "get_seis"
    /\ call.well_name \in DOMAIN inl_crl
    /\ call.radius = -1
    /\ overwrote
    /\ Len(ret) = 2

(***************************************************************************)
(* Properties of the depth snapping and of the nearest log sample.         *)
(***************************************************************************)
MeshCall == call.op \in {"sparse_mesh", "get_sparse_list"}

\* the depths of the axis: start, start + step, ... up to end
AxisDepths(cube) ==
    {d \in cube.startDepth..cube.endDepth :
        (d - cube.startDepth) % cube.stepDepth = 0}

\* C3 as claimed: a requested depth below start is snapped to start and one
\* above end to end, for every axis with start <= end and a positive step.
C3_OutOfRangeSnapsToStartOrEnd ==
    MeshCall =>
        /\ call.depth < seisCube.startDepth => locals.depth = seisCube.startDepth
        /\ call.depth > seisCube.endDepth => locals.depth = seisCube.endDepth

\* C3 amended: a requested depth below start is snapped to start and one above
\* end to the last depth of the axis, start + k*step, that does not exceed end
\* (which is end when end - start is a multiple of step).
C3_OutOfRangeSnapsToFirstOrLast ==
    MeshCall =>
        /\ call.depth < seisCube.startDepth => locals.depth = seisCube.startDepth
        /\ call.depth > seisCube.endDepth =>
              locals.depth = seisCube.endDepth
                  - ((seisCube.endDepth - seisCube.startDepth) % seisCube.stepDepth)

\* C3 witness: a depth above the end of an axis whose end is one of its depths
C3_AboveAlignedEnd ==
    /\ MeshCall
    /\ call.depth > seisCube.endDepth
    /\ seisCube.endDepth \in AxisDepths(seisCube)
    /\ seisCube.stepDepth > 1

\* C7: snapping a snapped depth again, in either method, returns it unchanged
\* and prints none of the three notices.
C7_SnapIdempotent ==
    MeshCall =>
        /\ mesh_depth(seisCube, locals.depth) = [printed |-> <<>>, depth |-> locals.depth]
        /\ list_depth(seisCube, locals.depth) = [printed |-> <<>>, depth |-> locals.depth]

\* C7 witness: a first snap that moved the requested depth, from above the axis
C7_SnapMovedDepth ==
    /\ MeshCall
    /\ call.depth > seisCube.endDepth
    /\ locals.depth # call.depth
    /\ printed # <<>>

\* the notice the requested depth calls for
Notice(cube, depth) ==
    IF depth > cube.endDepth THEN <<"input depth larger than maximum depth">>
    ELSE IF depth < cube.startDepth THEN <<"input depth smaller than minimum depth">>
    ELSE IF depth \notin AxisDepths(cube) THEN <<"return values on nearest depth">>
    ELSE <<>>

\* the example of the specification: depth axis [1000, 2000, step 10], depth 1997
ExampleCube ==
    SeisCube(OneAxis, OneAxis, [start |-> 1000, end |-> 2000, step |-> 10])

\* C9: the snapped depth is a depth of the axis, no depth of the axis is strictly
\* closer to the requested one, and of two equally close the smaller is taken;
\* the notice printed is the one the requested depth calls for and the snapped
\* depth is the one used whichever it is; 1997 on [1000, 2000, step 10] gives 2000.
C9_SnapNearestSmallerOnTie ==
    /\ MeshCall =>
          /\ locals.depth \in AxisDepths(seisCube)
          /\ \A m \in AxisDepths(seisCube) :
                /\ abs(m - call.depth) >= abs(locals.depth - call.depth)
                /\ abs(m - call.depth) = abs(locals.depth - call.depth)
                      => locals.depth <= m
          /\ printed = Notice(seisCube, call.depth)
    /\ mesh_depth(ExampleCube, 1997).depth = 2000
    /\ list_depth(ExampleCube, 1997).depth = 2000

\* C9 witness: a requested depth half way between two depths of the axis
C9_EquidistantDepth ==
    /\ MeshCall
    /\ call.depth - seisCube.stepDepth \div 2 = locals.depth
    /\ locals.depth + seisCube.stepDepth \in AxisDepths(seisCube)
    /\ seisCube.stepDepth = 2
    /\ printed = <<"return values on nearest depth">>

\* the depth samples of a well that are nearest to depth s
Nearest(we, s) ==
    {x \in 1..Len(we.depth) :
        \A y \in 1..Len(we.depth) : abs(we.depth[x] - s) <= abs(we.depth[y] - s)}

\* the value the returned array or list holds for the only registered well
ValueOf(we) ==
    IF call.op = "sparse_mesh"
    THEN LET t == inl_crl[we.well_name]
         IN  ret[<<(t[2] - seisCube.startCrline) \div seisCube.stepCrline,
                   (t[1] - seisCube.startInline) \div seisCube.stepInline>>]
    ELSE ret[1][3]

\* a mesh call that returned, with one well registered
OneWellCall ==
    /\ MeshCall
    /\ raised = ""
    /\ Cardinality(DOMAIN wells) = 1

\* C10 as claimed: the value taken for a well is the log value at a sample whose
\* depth is nearest to the snapped depth, and of equally near samples one with
\* the smaller depth value, whatever the order of the depth array.
C10_NearestSampleSmallerDepth ==
    OneWellCall =>
        LET we == wells[order[1]]
        IN  \E x \in Nearest(we, locals.depth) :
                /\ ValueOf(we) = we.data[x]
                /\ \A y \in Nearest(we, locals.depth) : we.depth[x] <= we.depth[y]

\* C10 amended: the value taken for a well is the log value at the first sample,
\* in array order, whose depth is nearest to the snapped depth (the smaller depth
\* when the depth array ascends); sparse_mesh and get_sparse_list take the same.
C10_NearestSampleFirstIndex ==
    OneWellCall =>
        LET we == wells[order[1]]
            x == CHOOSE x \in Nearest(we, locals.depth) :
                     \A y \in Nearest(we, locals.depth) : x <= y
        IN  /\ ValueOf(we) = we.data[x]
            /\ mesh_log_value(we, call.log_name, locals.depth)
                   = list_log_value(we, call.log_name, locals.depth)

\* C10 witness: two samples equally near the snapped depth, the deeper one first,
\* with different log values
C10_EquidistantDescending ==
    /\ OneWellCall
    /\ LET we == wells[order[1]]
       IN  /\ Len(we.depth) = 2
           /\ Nearest(we, locals.depth) = {1, 2}
           /\ we.depth[1] > we.depth[2]
           /\ we.data[1] # we.data[2]

(***************************************************************************)
(* Properties of the registry and of the cells of the sparse mesh.         *)
(***************************************************************************)
\* the cells of the returned array that hold a value
Filled == {c \in DOMAIN ret : ret[c] # NaN}

\* the registered wells whose tie lies within the bounds of the grid
WellsInGrid == {n \in DOMAIN wells : InGrid(seisCube, inl_crl[n])}

\* the cell of a tie: (crossline index, line index), by floor division
CellOf(cube, cdp) ==
    <<(cdp[2] - cube.startCrline) \div cube.stepCrline,
      (cdp[1] - cube.startInline) \div cube.stepInline>>

Storable ==
    {n \in DOMAIN wells :
        LET c == CellOf(seisCube, inl_crl[n])
        IN  /\ -seisCube.nNorth <= c[1] /\ c[1] < seisCube.nNorth
            /\ -seisCube.nEast <= c[2] /\ c[2] < seisCube.nEast}

C5_TiesFollowLastRegistration ==
    /\ [](/\ DOMAIN wells = DOMAIN inl_crl
          /\ DOMAIN wells = DOMAIN registered
          /\ \A n \in DOMAIN wells :
                /\ inl_crl[n] = coord_2_line(registered[n])
                /\ wells[n].loc = registered[n]
                /\ wells[n].well_name = n)
    /\ [][/\ call'.op = "add_well"
             => /\ DOMAIN wells' = DOMAIN wells \cup {call'.well.well_name}
                /\ \A n \in DOMAIN wells \ {call'.well.well_name} :
                      wells'[n] = wells[n] /\ inl_crl'[n] = inl_crl[n]
          /\ call'.op \in {"get_seis", "sparse_mesh", "get_sparse_list"}
             => wells' = wells /\ inl_crl' = inl_crl]_vars

\* C5 witness: a name registered again at another loc while another well is
\* registered too, followed by a query
C5_ReRegisteredThenQueried ==
    /\ overwrote
    /\ Cardinality(DOMAIN wells) = 2
    /\ call.op \in {"get_seis", "sparse_mesh", "get_sparse_list"}

====
